---- MODULE Spec2Model ----
(***************************************************************************)
(* SidecarManager (recreate_tauri_app/src-tauri/src/sidecar.rs): a         *)
(* supervisor of one child process.  The host calls start_sidecar,         *)
(* stop_sidecar, health_check and send_prompt from the tasks of a          *)
(* multi-threaded async runtime; every successful spawn starts a detached  *)
(* monitor task that drains the child's event channel.                     *)
(*                                                                         *)
(* Every `*x.lock().unwrap() = v;` statement is one critical section and   *)
(* one atomic step here.  The one guard that lives longer is the           *)
(* child_id guard of `if let Some(pid) = *self.child_id.lock().unwrap()`   *)
(* in stop_sidecar: the temporary of an `if let` scrutinee is dropped at   *)
(* the end of the whole `if let` statement, so it is held across the kill  *)
(* command and across the second child_id.lock() of line 126.              *)
(*                                                                         *)
(* An Option is a set with at most one element: None == {}, Some(x) == {x}.*)
(***************************************************************************)
EXTENDS Integers, Sequences, FiniteSets, TLC

\* Bounds of the model.
NumCallers == 2
MaxChildren == 2
MaxQueue == 1
MaxCalls == 3

Callers == 1..NumCallers
Children == 1..MaxChildren

None == {}
Some(x) == {x}

\* The three mutexes of the struct (lines 8-10).
Locks == {"is_running", "child_id", "error_message"}

\* Exit codes carried by CommandEvent::Terminated: Some(0), Some(1), or None
\* (the process was ended by a signal).
ExitCodes == {Some(0), Some(1), None}

\* The events a child's channel delivers.
OutputEvents == {[kind |-> "Stdout", code |-> None],
                 [kind |-> "Stderr", code |-> None],
                 [kind |-> "Other", code |-> None]}
ErrorEvent == [kind |-> "Error", code |-> None]
Terminated(code) == [kind |-> "Terminated", code |-> code]

\* What std::sync::Mutex::lock does when the calling thread already holds the
\* mutex: it never returns; it blocks forever or it panics.
RelockOutcomes == {"deadlock", "panic"}

VARIABLES
    is_running,     \* the bool behind the is_running mutex
    child_id,       \* the Option<u32> behind the child_id mutex
    error_message,  \* the Option<String> behind the error_message mutex
    holder,         \* holder[l]: the caller whose guard on mutex l outlives a statement
    poisoned,       \* the mutexes a panic has poisoned
    relock,         \* what this build's Mutex does on a relock by its holder
    pc,             \* pc[c]: the line the call of caller c is at, "idle" between calls
    calls,          \* the number of calls the host has made
    op,             \* op[c]: the operation of the current or last call of c
    ret,            \* ret[c]: what the last call of c returned, <<>> during a call
    loc,            \* loc[c]: the pid a call holds in a local (child.pid(), `pid`)
    net,            \* net[c]: the HTTP request caller c has in flight
    proc,           \* proc[k]: the OS process of child k
    queue,          \* queue[k]: the events in child k's channel
    mon,            \* mon[k]: the line the monitor task of child k is at
    payload         \* payload[k]: the exit code of the Terminated event being handled

vars == <<is_running, child_id, error_message, holder, poisoned, relock,
          pc, calls, op, ret, loc, net, proc, queue, mon,
          payload>>

sup == <<is_running, child_id, error_message>>
envVars == <<proc, queue>>
monVars == <<mon, payload>>
lockVars == <<holder, poisoned>>
host == <<calls, op>>

\* format!("{:?}", payload.code)
DebugFmt(code) ==
    IF code = None THEN "None"
    ELSE IF code = Some(0) THEN "Some(0)"
    ELSE "Some(1)"

ProcessErrorMsg == <<"Process error: ", "err">>
TerminatedMsg(code) == <<"Process terminated with code: ", DebugFmt(code)>>
SpawnFailMsg == <<"Failed to spawn sidecar: ", "e">>
CommandFailMsg == <<"Failed to create sidecar command: ", "e">>
KillFailMsg == <<"Failed to kill process: ", "e">>

\* Results of the calls: Ok(value) and Err(message).
Ok(value) == <<"Ok", value>>
OkUnit == Ok("()")
Err(msg) == <<"Err">> \o msg
ErrNotRunning == Err(<<"Sidecar is not running">>)
ErrNoPid == Err(<<"No process ID available">>)
NoResult == <<>>

\* SidecarManager::new()
Init ==
    /\ is_running = FALSE
    /\ child_id = None
    /\ error_message = None
    /\ holder = [l \in Locks |-> None]
    /\ poisoned = {}
    /\ relock \in RelockOutcomes
    /\ pc = [c \in Callers |-> "idle"]
    /\ calls = 0
    /\ op = [c \in Callers |-> ""]
    /\ ret = [c \in Callers |-> NoResult]
    /\ loc = [c \in Callers |-> None]
    /\ net = [c \in Callers |-> "none"]
    /\ proc = [k \in Children |-> "none"]
    /\ queue = [k \in Children |-> <<>>]
    /\ mon = [k \in Children |-> "none"]
    /\ payload = [k \in Children |-> None]

\* The call of caller c goes on to line `to`.
Goto(c, to) ==
    /\ pc' = [pc EXCEPT ![c] = to]
    /\ ret' = [ret EXCEPT ![c] = NoResult]

\* Caller c returns `value`; every guard it still holds is dropped.
Return(c, value) ==
    /\ pc' = [pc EXCEPT ![c] = "idle"]
    /\ ret' = [ret EXCEPT ![c] = value]
    /\ loc' = [loc EXCEPT ![c] = None]
    /\ holder' = [l \in Locks |-> IF holder[l] = Some(c) THEN None ELSE holder[l]]

\* Caller c panics: its task unwinds and is gone; every mutex whose guard it
\* holds is poisoned as the guard is dropped.
Panic(c) ==
    /\ pc' = [pc EXCEPT ![c] = "panicked"]
    /\ ret' = [ret EXCEPT ![c] = NoResult]
    /\ loc' = [loc EXCEPT ![c] = None]
    /\ poisoned' = poisoned \cup {l \in Locks : holder[l] = Some(c)}
    /\ holder' = [l \in Locks |-> IF holder[l] = Some(c) THEN None ELSE holder[l]]

\* The host calls operation `name` from task c, which is between calls.
Call(c, name) ==
    /\ pc[c] = "idle"
    /\ calls < MaxCalls
    /\ calls' = calls + 1
    /\ op' = [op EXCEPT ![c] = name]

Spawned == {k \in Children : proc[k] # "none"}

----------------------------------------------------------------------------
\* start_sidecar

\* Start_L24 without the check of is_running.
Start_L24_Unguarded(c) ==
    /\ Call(c, "start_sidecar")
    /\ Goto(c, "start_29")
    /\ UNCHANGED <<loc, holder, sup, poisoned, relock, net, envVars, monVars>>

\* The host calls start_sidecar.
\* line 24: if *self.is_running.lock().unwrap() { return Ok(()); }
Start_L24(c) ==
    /\ Call(c, "start_sidecar")
    /\ IF is_running
       THEN Return(c, OkUnit)
       ELSE Goto(c, "start_29") /\ UNCHANGED <<loc, holder>>
    /\ UNCHANGED <<sup, poisoned, relock, net, envVars, monVars>>

\* Start_L29 that keeps the previous error.
Start_L29_Keeps(c) ==
    /\ pc[c] = "start_29"
    /\ Goto(c, "start_33")
    /\ UNCHANGED <<sup, lockVars, relock, host, loc, net, envVars, monVars>>

\* line 29: *self.error_message.lock().unwrap() = None;
Start_L29(c) ==
    /\ pc[c] = "start_29"
    /\ error_message' = None
    /\ Goto(c, "start_33")
    /\ UNCHANGED <<is_running, child_id, lockVars, relock, host, loc, net,
                   envVars, monVars>>

\* lines 33-36 with 103-107: shell.sidecar("opencode") fails.
Start_L33_CommandErr(c) ==
    /\ pc[c] = "start_33"
    /\ error_message' = Some(CommandFailMsg)
    /\ Return(c, Err(CommandFailMsg))
    /\ UNCHANGED <<is_running, child_id, poisoned, relock, host, net, envVars, monVars>>

\* Start_L36_SpawnErr that counts the failed spawn as a running child.
Start_L36_SpawnErr_MarksRunning(c) ==
    /\ pc[c] = "start_33"
    /\ error_message' = Some(SpawnFailMsg)
    /\ is_running' = TRUE
    /\ Return(c, Err(SpawnFailMsg))
    /\ UNCHANGED <<child_id, poisoned, relock, host, net, envVars, monVars>>

\* lines 36 with 96-100: command.spawn() fails.
Start_L36_SpawnErr(c) ==
    /\ pc[c] = "start_33"
    /\ error_message' = Some(SpawnFailMsg)
    /\ Return(c, Err(SpawnFailMsg))
    /\ UNCHANGED <<is_running, child_id, poisoned, relock, host, net, envVars, monVars>>

\* lines 36-38: command.spawn() succeeds: a new OS process with its event
\* channel; let child_id = child.pid();
Start_L36_SpawnOk(c) ==
    /\ pc[c] = "start_33"
    /\ Spawned # Children
    /\ LET k == CHOOSE j \in Children \ Spawned :
                    \A i \in Children \ Spawned : j <= i
       IN /\ proc' = [proc EXCEPT ![k] = "alive"]
          /\ loc' = [loc EXCEPT ![c] = Some(k)]
    /\ Goto(c, "start_39")
    /\ UNCHANGED <<sup, lockVars, relock, host, net, queue, monVars>>

\* line 39: *self.child_id.lock().unwrap() = Some(child_id);
Start_L39(c) ==
    /\ pc[c] = "start_39"
    /\ holder["child_id"] = None
    /\ IF "child_id" \in poisoned
       THEN Panic(c) /\ UNCHANGED child_id
       ELSE /\ child_id' = loc[c]
            /\ Goto(c, "start_40")
            /\ UNCHANGED <<loc, lockVars>>
    /\ UNCHANGED <<is_running, error_message, relock, host, net, envVars, monVars>>

\* line 40: *self.is_running.lock().unwrap() = true;
Start_L40(c) ==
    /\ pc[c] = "start_40"
    /\ is_running' = TRUE
    /\ Goto(c, "start_47")
    /\ UNCHANGED <<child_id, error_message, lockVars, relock, host, loc, net,
                   envVars, monVars>>

\* lines 43-47: tokio::spawn(async move { while let Some(event) = rx.recv() ... })
Start_L47(c) ==
    /\ pc[c] = "start_47"
    /\ \E k \in loc[c] : mon' = [mon EXCEPT ![k] = "recv"]
    /\ Goto(c, "start_92")
    /\ UNCHANGED <<sup, lockVars, relock, host, loc, net, envVars, payload>>

\* lines 92-94: sleep(1000 ms).await; Ok(())
Start_L92(c) ==
    /\ pc[c] = "start_92"
    /\ Return(c, OkUnit)
    /\ UNCHANGED <<sup, poisoned, relock, host, net, envVars, monVars>>

StartStep(c) ==
    \/ Start_L24(c)
    \/ Start_L29(c)
    \/ Start_L33_CommandErr(c)
    \/ Start_L36_SpawnErr(c)
    \/ Start_L36_SpawnOk(c)
    \/ Start_L39(c)
    \/ Start_L40(c)
    \/ Start_L47(c)
    \/ Start_L92(c)

----------------------------------------------------------------------------
\* stop_sidecar

\* Stop_L112 without the check of is_running.
Stop_L112_Unguarded(c) ==
    /\ Call(c, "stop_sidecar")
    /\ Goto(c, "stop_116")
    /\ UNCHANGED <<loc, holder, sup, poisoned, relock, net, envVars, monVars>>

\* The host calls stop_sidecar.
\* lines 112-114: if !*self.is_running.lock().unwrap() { return Ok(()); }
Stop_L112(c) ==
    /\ Call(c, "stop_sidecar")
    /\ IF ~is_running
       THEN Return(c, OkUnit)
       ELSE Goto(c, "stop_116") /\ UNCHANGED <<loc, holder>>
    /\ UNCHANGED <<sup, poisoned, relock, net, envVars, monVars>>

\* Stop_L116 that takes a missing pid as nothing left to stop.
Stop_L116_Silent(c) ==
    /\ pc[c] = "stop_116"
    /\ holder["child_id"] = None
    /\ IF "child_id" \in poisoned
       THEN Panic(c)
       ELSE IF child_id = None
       THEN Return(c, OkUnit) /\ UNCHANGED poisoned
       ELSE /\ holder' = [holder EXCEPT !["child_id"] = Some(c)]
            /\ loc' = [loc EXCEPT ![c] = child_id]
            /\ Goto(c, "stop_123")
            /\ UNCHANGED poisoned
    /\ UNCHANGED <<sup, relock, host, net, envVars, monVars>>

\* line 116: if let Some(pid) = *self.child_id.lock().unwrap() { .. } else { .. }
\* The guard is a temporary of the scrutinee: it stays locked until the
\* `if let` statement ends.  Lines 156-158: the else branch.
Stop_L116(c) ==
    /\ pc[c] = "stop_116"
    /\ holder["child_id"] = None
    /\ IF "child_id" \in poisoned
       THEN Panic(c)
       ELSE IF child_id = None
       THEN Return(c, ErrNoPid) /\ UNCHANGED poisoned
       ELSE /\ holder' = [holder EXCEPT !["child_id"] = Some(c)]
            /\ loc' = [loc EXCEPT ![c] = child_id]
            /\ Goto(c, "stop_123")
            /\ UNCHANGED poisoned
    /\ UNCHANGED <<sup, relock, host, net, envVars, monVars>>

\* line 123, Ok(_): Command::new("kill").arg(pid).output() ran the kill
\* command, which sends the termination signal to the process, if it exists.
Stop_L123_Ok(c) ==
    /\ pc[c] = "stop_123"
    /\ proc' = [k \in Children |->
                  IF k \in loc[c] /\ proc[k] = "alive" THEN "signalled" ELSE proc[k]]
    /\ Goto(c, "stop_125")
    /\ UNCHANGED <<sup, lockVars, relock, host, loc, net, queue, monVars>>

\* line 123, Err(e): the kill command could not be run.
Stop_L123_Err(c) ==
    /\ pc[c] = "stop_123"
    /\ Goto(c, "stop_130")
    /\ UNCHANGED <<sup, lockVars, relock, host, loc, net, envVars, monVars>>

\* line 125: *self.is_running.lock().unwrap() = false;
Stop_L125(c) ==
    /\ pc[c] = "stop_125"
    /\ is_running' = FALSE
    /\ Goto(c, "stop_126")
    /\ UNCHANGED <<child_id, error_message, lockVars, relock, host, loc, net,
                   envVars, monVars>>

\* lines 126-127: *self.child_id.lock().unwrap() = None; Ok(())
\* The lock blocks while another guard on child_id exists; when the guard is
\* the caller's own (line 116), lock() never returns: the call stays here
\* forever, or it panics.
Stop_L126(c) ==
    /\ pc[c] = "stop_126"
    /\ IF holder["child_id"] = Some(c)
       THEN /\ relock = "panic"
            /\ Panic(c)
            /\ UNCHANGED child_id
       ELSE /\ holder["child_id"] = None
            /\ child_id' = None
            /\ Return(c, OkUnit)
            /\ UNCHANGED poisoned
    /\ UNCHANGED <<is_running, error_message, relock, host, net, envVars, monVars>>

\* Stop_L130 that gives the child up as stopped when the kill command fails.
Stop_L130_GivesUp(c) ==
    /\ pc[c] = "stop_130"
    /\ error_message' = Some(KillFailMsg)
    /\ is_running' = FALSE
    /\ Return(c, Err(KillFailMsg))
    /\ UNCHANGED <<child_id, poisoned, relock, host, net, envVars, monVars>>

\* lines 130-132: *self.error_message.lock().unwrap() = Some(error.clone());
\* Err(error)
Stop_L130(c) ==
    /\ pc[c] = "stop_130"
    /\ error_message' = Some(KillFailMsg)
    /\ Return(c, Err(KillFailMsg))
    /\ UNCHANGED <<is_running, child_id, poisoned, relock, host, net, envVars, monVars>>

StopStep(c) ==
    \/ Stop_L112(c)
    \/ Stop_L116(c)
    \/ Stop_L123_Ok(c)
    \/ Stop_L123_Err(c)
    \/ Stop_L125(c)
    \/ Stop_L126(c)
    \/ Stop_L130(c)

----------------------------------------------------------------------------
\* health_check and send_prompt

\* Health_L162 without the check of is_running.
Health_L162_Unguarded(c) ==
    /\ Call(c, "health_check")
    /\ net' = [net EXCEPT ![c] = "GET /api/health"]
    /\ Goto(c, "health_166")
    /\ UNCHANGED <<loc, holder, sup, poisoned, relock, envVars, monVars>>

\* The host calls health_check.
\* lines 162-166: the running guard, then reqwest::get(".../api/health")
Health_L162(c) ==
    /\ Call(c, "health_check")
    /\ IF ~is_running
       THEN Return(c, ErrNotRunning) /\ UNCHANGED net
       ELSE /\ net' = [net EXCEPT ![c] = "GET /api/health"]
            /\ Goto(c, "health_166")
            /\ UNCHANGED <<loc, holder>>
    /\ UNCHANGED <<sup, poisoned, relock, envVars, monVars>>

\* The results of health_check, by the response (lines 166-187).
HealthResults ==
    {Ok("OpenCode health check: ok"),
     Ok("OpenCode health check successful"),
     Err(<<"Failed to parse response: ", "e">>),
     Err(<<"Health check failed with status: ", "500">>),
     Err(<<"Health check request failed: ", "e">>)}

\* Health_L166 that takes a failed request as the death of the child.
Health_L166_MarksStopped(c) ==
    /\ pc[c] = "health_166"
    /\ net' = [net EXCEPT ![c] = "none"]
    /\ \E r \in HealthResults :
          /\ Return(c, r)
          /\ is_running' = (is_running /\ r[1] = "Ok")
    /\ UNCHANGED <<child_id, error_message, poisoned, relock, host, envVars, monVars>>

\* lines 166-187: the request ends: a response or a transport failure.
Health_L166(c) ==
    /\ pc[c] = "health_166"
    /\ net' = [net EXCEPT ![c] = "none"]
    /\ \E r \in HealthResults : Return(c, r)
    /\ UNCHANGED <<sup, poisoned, relock, host, envVars, monVars>>

\* The host calls send_prompt.
\* lines 199-212: the running guard, then client.post(".../api/prompt").send()
Prompt_L199(c) ==
    /\ Call(c, "send_prompt")
    /\ IF ~is_running
       THEN Return(c, ErrNotRunning) /\ UNCHANGED net
       ELSE /\ net' = [net EXCEPT ![c] = "POST /api/prompt"]
            /\ Goto(c, "prompt_208")
            /\ UNCHANGED <<loc, holder>>
    /\ UNCHANGED <<sup, poisoned, relock, envVars, monVars>>

\* The results of send_prompt, by the response (lines 213-225).
PromptResults ==
    {Ok("text"),
     Err(<<"Failed to read response: ", "e">>),
     Err(<<"Request failed with status: ", "500">>),
     Err(<<"Request failed: ", "e">>)}

\* lines 208-225: the request ends.
Prompt_L208(c) ==
    /\ pc[c] = "prompt_208"
    /\ net' = [net EXCEPT ![c] = "none"]
    /\ \E r \in PromptResults : Return(c, r)
    /\ UNCHANGED <<sup, poisoned, relock, host, envVars, monVars>>

HealthStep(c) == Health_L162(c) \/ Health_L166(c)
PromptStep(c) == Prompt_L199(c) \/ Prompt_L208(c)

----------------------------------------------------------------------------
\* The monitor task of child k (lines 47-89)

\* The task ends (break, the end of the stream, or a panic): rx is dropped.
MonEnd(k, how) ==
    /\ mon' = [mon EXCEPT ![k] = how]
    /\ queue' = [queue EXCEPT ![k] = <<>>]
    /\ payload' = [payload EXCEPT ![k] = None]

\* The task goes on to line `to`.
MonGoto(k, to) ==
    /\ mon' = [mon EXCEPT ![k] = to]
    /\ UNCHANGED <<queue, payload>>

\* line 48: while let Some(event) = rx.recv().await, and the match on the
\* event: output and unknown events are printed or ignored and the loop goes
\* on; recv() gives None once the channel is empty and its sender is gone.
Mon_L48(k) ==
    /\ mon[k] = "recv"
    /\ IF queue[k] # <<>>
       THEN LET event == Head(queue[k])
            IN /\ queue' = [queue EXCEPT ![k] = Tail(queue[k])]
               /\ mon' = [mon EXCEPT ![k] =
                            IF event.kind = "Error" THEN "mon_63"
                            ELSE IF event.kind = "Terminated" THEN "mon_74"
                            ELSE "recv"]
               /\ payload' = [payload EXCEPT ![k] = event.code]
       ELSE /\ proc[k] = "exited"
            /\ MonEnd(k, "done")
    /\ UNCHANGED <<sup, lockVars, relock, host, pc, ret, loc, net, proc>>

\* lines 63-64: *error_message.lock().unwrap() = Some(format!("Process error: {}", err));
Mon_L63(k) ==
    /\ mon[k] = "mon_63"
    /\ error_message' = Some(ProcessErrorMsg)
    /\ MonGoto(k, "mon_65")
    /\ UNCHANGED <<is_running, child_id, lockVars, relock, host, pc, ret, loc, net,
                   proc>>

\* line 65: *is_running.lock().unwrap() = false;
Mon_L65(k) ==
    /\ mon[k] = "mon_65"
    /\ is_running' = FALSE
    /\ MonGoto(k, "mon_66")
    /\ UNCHANGED <<child_id, error_message, lockVars, relock, host, pc, ret, loc,
                   net, proc>>

\* lines 66-67: *child_id_clone.lock().unwrap() = None; break;
Mon_L66(k) ==
    /\ mon[k] = "mon_66"
    /\ holder["child_id"] = None
    /\ IF "child_id" \in poisoned
       THEN MonEnd(k, "panicked") /\ UNCHANGED child_id
       ELSE child_id' = None /\ MonEnd(k, "done")
    /\ UNCHANGED <<is_running, error_message, lockVars, relock, host, pc, ret, loc,
                   net, proc>>

\* line 74: *is_running.lock().unwrap() = false;
Mon_L74(k) ==
    /\ mon[k] = "mon_74"
    /\ is_running' = FALSE
    /\ MonGoto(k, "mon_75")
    /\ UNCHANGED <<child_id, error_message, lockVars, relock, host, pc, ret, loc,
                   net, proc>>

\* line 75: *child_id_clone.lock().unwrap() = None;
Mon_L75(k) ==
    /\ mon[k] = "mon_75"
    /\ holder["child_id"] = None
    /\ IF "child_id" \in poisoned
       THEN MonEnd(k, "panicked") /\ UNCHANGED child_id
       ELSE child_id' = None /\ MonGoto(k, "mon_76")
    /\ UNCHANGED <<is_running, error_message, lockVars, relock, host, pc, ret, loc,
                   net, proc>>

\* lines 76-82: if payload.code != Some(0) { *error_message.lock().unwrap() =
\* Some(format!("Process terminated with code: {:?}", payload.code)); } break;
Mon_L76(k) ==
    /\ mon[k] = "mon_76"
    /\ IF payload[k] # Some(0)
       THEN error_message' = Some(TerminatedMsg(payload[k]))
       ELSE UNCHANGED error_message
    /\ MonEnd(k, "done")
    /\ UNCHANGED <<is_running, child_id, lockVars, relock, host, pc, ret, loc, net,
                   proc>>

MonStep(k) ==
    \/ Mon_L48(k)
    \/ Mon_L63(k)
    \/ Mon_L65(k)
    \/ Mon_L66(k)
    \/ Mon_L74(k)
    \/ Mon_L75(k)
    \/ Mon_L76(k)

----------------------------------------------------------------------------
\* The child process and its event channel (tauri_plugin_shell)

Live(k) == proc[k] \in {"alive", "signalled"}

\* The receiver of child k's channel still exists.
RxOpen(k) == mon[k] \notin {"done", "panicked"}

\* The channel takes one more event.
Send(k, event) ==
    IF RxOpen(k)
    THEN /\ Len(queue[k]) < MaxQueue
         /\ queue' = [queue EXCEPT ![k] = Append(queue[k], event)]
    ELSE UNCHANGED queue

\* The child writes to stdout or stderr, or the plugin reports another event.
ChildOutput(k) ==
    /\ Live(k)
    /\ RxOpen(k)
    /\ \E event \in OutputEvents : Send(k, event)
    /\ UNCHANGED <<sup, lockVars, relock, host, pc, ret, loc, net, proc, monVars>>

\* The plugin reports CommandEvent::Error for the child.
ChildError(k) ==
    /\ Live(k)
    /\ RxOpen(k)
    /\ Send(k, ErrorEvent)
    /\ UNCHANGED <<sup, lockVars, relock, host, pc, ret, loc, net, proc, monVars>>

\* The process ends, by itself or by the signal: CommandEvent::Terminated
\* with its exit code is the last event of the channel.
ChildExit(k) ==
    /\ Live(k)
    /\ proc' = [proc EXCEPT ![k] = "exited"]
    /\ \E code \in ExitCodes : Send(k, Terminated(code))
    /\ UNCHANGED <<sup, lockVars, relock, host, pc, ret, loc, net, monVars>>

----------------------------------------------------------------------------

CallerStep(c) == StartStep(c) \/ StopStep(c) \/ HealthStep(c) \/ PromptStep(c)

Next ==
    \/ \E c \in Callers :
          CallerStep(c)
    \/ \E k \in Children :
          \/ MonStep(k)
          \/ ChildOutput(k) \/ ChildError(k) \/ ChildExit(k)

Spec == Init /\ [][Next]_vars

\* The runtime keeps scheduling every call in progress and every monitor
\* task; it promises nothing about the host's calls or the child.
FairSpec ==
    /\ Spec
    /\ \A c \in Callers : WF_vars(CallerStep(c))
    /\ \A k \in Children : WF_vars(MonStep(k))

----------------------------------------------------------------------------
\* Vocabulary of the properties

\* This step is a step of caller c's call.
StepOf(c) ==
    pc'[c] # pc[c] \/ ret'[c] # ret[c] \/ op'[c] # op[c] \/ loc'[c] # loc[c]

\* This step is the host's call of operation `name` from task c.
CallOf(c, name) ==
    pc[c] = "idle" /\ calls' # calls /\ op'[c] = name /\ StepOf(c)

\* This step is a call that returned at once to the state it started from.
SilentCall == calls' # calls /\ \A c \in Callers : ~StepOf(c)

\* No call is in flight and no monitor is in the middle of an event.
Quiescent ==
    /\ \A c \in Callers : pc[c] = "idle"
    /\ \A k \in Children : proc[k] # "none" => mon[k] \in {"recv", "done"}

\* The children that are alive and have not been sent a signal.
Unsignalled == {k \in Children : proc[k] = "alive"}

InStop(c) == pc[c] \in {"stop_116", "stop_123", "stop_125", "stop_126", "stop_130"}

----------------------------------------------------------------------------
\* C1: start_sidecar called while is_running is true returns Ok(()) at once:
\* it spawns no process, starts no monitor, and leaves is_running and
\* child_id as they were.
C1_StartWhileRunning ==
    [][/\ \A c \in Callers :
            (CallOf(c, "start_sidecar") /\ is_running) =>
                /\ pc'[c] = "idle"
                /\ ret'[c] = OkUnit
                /\ UNCHANGED <<is_running, child_id, proc, mon, queue>>
       /\ (SilentCall /\ is_running) =>
                UNCHANGED <<is_running, child_id, proc, mon, queue>>]_vars

\* Two start_sidecar calls have returned Ok(()) and one process was spawned:
\* one of the two calls found is_running set.
C1_Witness ==
    \E c, d \in Callers :
        /\ c # d
        /\ op[c] = "start_sidecar" /\ pc[c] = "idle" /\ ret[c] = OkUnit
        /\ op[d] = "start_sidecar" /\ pc[d] = "idle" /\ ret[d] = OkUnit
        /\ Cardinality(Spawned) = 1

\* C2: at any time at most one spawned child is alive without having been
\* sent a termination signal.
C2_AtMostOneLiveChild == Cardinality(Unsignalled) <= 1

\* C3: in every quiescent state child_id is Some exactly when is_running is
\* true.
C3_QuiescentConsistency == Quiescent => ((child_id # None) <=> is_running)

\* C4: a stop_sidecar call never waits on a mutex of the manager forever and
\* never unwinds: whenever it is in progress it can take its next step, unless
\* the guard it waits for is held by another call.
C4_StopNeverStuck ==
    \A c \in Callers :
        /\ InStop(c) =>
              \/ ENABLED StopStep(c)
              \/ holder["child_id"] \notin {None, Some(c)}
        /\ ~(op[c] = "stop_sidecar" /\ pc[c] = "panicked")

\* C5: once the kill command of a stop_sidecar call has succeeded, the call
\* returns Ok(()) in a state with is_running false and child_id None.
C5_StopSuccessClears ==
    \A c \in Callers :
        (pc[c] = "stop_125") ~>
            (pc[c] = "idle" /\ ret[c] = OkUnit /\ ~is_running /\ child_id = None)

\* C6: stop_sidecar called while is_running is false returns Ok(()) at once:
\* no kill command is run, and is_running, child_id and error_message are
\* left as they were.
C6_StopWhileStopped ==
    [][/\ \A c \in Callers :
            (CallOf(c, "stop_sidecar") /\ ~is_running) =>
                /\ pc'[c] = "idle"
                /\ ret'[c] = OkUnit
                /\ UNCHANGED <<sup, proc>>
       /\ (SilentCall /\ ~is_running) => UNCHANGED <<sup, proc>>]_vars

\* stop_sidecar returned Ok(()) although no process was ever spawned.
C6_Witness ==
    \E c \in Callers :
        /\ op[c] = "stop_sidecar" /\ pc[c] = "idle" /\ ret[c] = OkUnit
        /\ Spawned = {}

\* C7: when the kill command of stop_sidecar fails, no step of the call
\* changes is_running or child_id, and the call returns Err with the failure
\* message after storing that message in error_message; child_id is still the
\* pid the call read.
C7_KillFailure ==
    [][\A c \in Callers :
          /\ (pc[c] = "stop_123" /\ pc'[c] = "stop_130") => UNCHANGED sup
          /\ (pc[c] = "stop_130" /\ StepOf(c)) =>
                /\ pc'[c] = "idle"
                /\ ret'[c] = Err(KillFailMsg)
                /\ error_message' = Some(KillFailMsg)
                /\ UNCHANGED <<is_running, child_id>>
                /\ child_id' = loc[c]
                /\ child_id' # None]_vars

\* stop_sidecar has failed on the kill command and the manager still counts
\* as running, with the child's pid.
C7_Witness ==
    \E c \in Callers :
        /\ op[c] = "stop_sidecar" /\ pc[c] = "idle" /\ ret[c] = Err(KillFailMsg)
        /\ error_message = Some(KillFailMsg)
        /\ is_running
        /\ child_id # None

\* C8: health_check and send_prompt called while is_running is false return
\* the not-running error at once and send nothing; a request is only sent by
\* a step that read is_running as true.
C8_GuardedRequests ==
    [][\A c \in Callers :
          /\ ((CallOf(c, "health_check") \/ CallOf(c, "send_prompt")) /\ ~is_running) =>
                /\ pc'[c] = "idle"
                /\ ret'[c] = ErrNotRunning
                /\ UNCHANGED net
          /\ (net[c] = "none" /\ net'[c] # "none") => is_running]_vars

\* Both operations have been refused with the not-running error.
C8_Witness ==
    \E c, d \in Callers :
        /\ op[c] = "health_check" /\ pc[c] = "idle" /\ ret[c] = ErrNotRunning
        /\ op[d] = "send_prompt" /\ pc[d] = "idle" /\ ret[d] = ErrNotRunning

\* C9: no step of health_check or send_prompt changes is_running, child_id or
\* error_message, whatever the call returns.
C9_RequestsKeepState ==
    [][\A c \in Callers :
          (StepOf(c) /\ op'[c] \in {"health_check", "send_prompt"}) =>
              UNCHANGED sup]_vars

\* health_check has failed in transport and send_prompt on the status, and
\* the manager still counts as running.
C9_Witness ==
    \E c, d \in Callers :
        /\ op[c] = "health_check" /\ pc[c] = "idle"
        /\ ret[c] = Err(<<"Health check request failed: ", "e">>)
        /\ op[d] = "send_prompt" /\ pc[d] = "idle"
        /\ ret[d] = Err(<<"Request failed with status: ", "500">>)
        /\ is_running
        /\ child_id # None

\* C10: a monitor that takes a termination event sets is_running to false,
\* then sets child_id to None, then writes error_message exactly when the exit
\* code is not Some(0), and ends; it is never held up at one of these writes
\* by a guard that is never dropped.
C10_TerminationHandled ==
    /\ [][\A k \in Children :
            /\ (mon[k] = "recv" /\ queue[k] # <<>> /\ Head(queue[k]).kind = "Terminated"
                    /\ mon'[k] # mon[k]) =>
                  (mon'[k] = "mon_74" /\ payload'[k] = Head(queue[k]).code /\ UNCHANGED sup)
            /\ (mon[k] = "mon_74" /\ mon'[k] # mon[k]) =>
                  (mon'[k] = "mon_75" /\ is_running' = FALSE
                      /\ UNCHANGED <<child_id, error_message>>)
            /\ (mon[k] = "mon_75" /\ mon'[k] # mon[k]) =>
                  (mon'[k] = "mon_76" /\ child_id' = None
                      /\ UNCHANGED <<is_running, error_message>>)
            /\ (mon[k] = "mon_76" /\ mon'[k] # mon[k]) =>
                  /\ mon'[k] = "done"
                  /\ UNCHANGED <<is_running, child_id>>
                  /\ IF payload[k] = Some(0)
                     THEN UNCHANGED error_message
                     ELSE error_message' = Some(TerminatedMsg(payload[k]))]_vars
    /\ [](\A k \in Children :
            mon[k] = "mon_75" =>
                \/ ENABLED Mon_L75(k)
                \/ \E c \in Callers : holder["child_id"] = Some(c) /\ ENABLED StopStep(c))

----------------------------------------------------------------------------
\* C11: a start_sidecar call that read is_running as false and then fails to
\* create the command or to spawn it returns Err with the failure message
\* and stores that message in error_message; the step spawns no process and
\* starts no monitor, and no step of the call up to it changes is_running or
\* child_id.
C11_StartFailure ==
    [][\A c \in Callers :
          /\ (pc[c] = "start_29" /\ StepOf(c)) =>
                UNCHANGED <<is_running, child_id, proc, mon, queue>>
          /\ (pc[c] = "start_33" /\ StepOf(c) /\ proc' = proc) =>
                /\ pc'[c] = "idle"
                /\ ret'[c] \in {Err(CommandFailMsg), Err(SpawnFailMsg)}
                /\ error_message' = Some(Tail(ret'[c]))
                /\ UNCHANGED <<is_running, child_id, mon, queue>>]_vars

\* start_sidecar has failed to spawn: nothing was ever spawned, the manager
\* is stopped without a pid, and error_message holds the failure.
C11_Witness ==
    \E c \in Callers :
        /\ op[c] = "start_sidecar" /\ pc[c] = "idle" /\ ret[c] = Err(SpawnFailMsg)
        /\ error_message = Some(SpawnFailMsg)
        /\ ~is_running
        /\ child_id = None
        /\ Spawned = {}
        /\ \A k \in Children : mon[k] = "none"

\* C12 as stated: error_message is cleared at the start of each
\* start_sidecar call: a call that returns Ok(()) at once, during which
\* nothing can have been recorded, leaves error_message None.
C12_ClearedByEveryStart ==
    [][\A c \in Callers :
          (CallOf(c, "start_sidecar") /\ pc'[c] = "idle" /\ ret'[c] = OkUnit) =>
              error_message' = None]_vars

\* C12, amended: error_message is cleared by every start_sidecar call that
\* read is_running as false, before the command is created: the step after the
\* check sets it to None, and the call returns Ok(()) from line 94 only by
\* way of that step.  A call that read is_running as true returns Ok(()) at
\* once and leaves error_message as it was.
C12_ClearedWhenNotRunning ==
    [][\A c \in Callers :
          /\ (CallOf(c, "start_sidecar") /\ ~is_running) =>
                (pc'[c] = "start_29" /\ UNCHANGED error_message)
          /\ (CallOf(c, "start_sidecar") /\ is_running) =>
                (pc'[c] = "idle" /\ ret'[c] = OkUnit /\ UNCHANGED error_message)
          /\ (pc[c] = "start_29" /\ StepOf(c)) =>
                (pc'[c] = "start_33" /\ error_message' = None)
          /\ LET before == [l \in {"start_33", "start_39", "start_40", "start_47",
                                   "start_92"} |->
                              CASE l = "start_33" -> "start_29"
                                [] l = "start_39" -> "start_33"
                                [] l = "start_40" -> "start_39"
                                [] l = "start_47" -> "start_40"
                                [] l = "start_92" -> "start_47"]
             IN /\ (pc'[c] # pc[c] /\ pc'[c] \in DOMAIN before) =>
                      pc[c] = before[pc'[c]]
                /\ (op[c] = "start_sidecar" /\ pc[c] \notin {"idle", "panicked"}
                        /\ pc'[c] = "idle" /\ ret'[c] = OkUnit) =>
                      pc[c] = "start_92"]_vars

\* Of two calls, one start_sidecar has failed to spawn and recorded that, and
\* a later start_sidecar has spawned the child and returned Ok(()):
\* error_message is None again.
C12_Witness ==
    \E c, d \in Callers :
        /\ c # d
        /\ calls = 2
        /\ op[d] = "start_sidecar" /\ pc[d] = "idle" /\ ret[d] = Err(SpawnFailMsg)
        /\ op[c] = "start_sidecar" /\ pc[c] = "idle" /\ ret[c] = OkUnit
        /\ Cardinality(Spawned) = 1
        /\ error_message = None

\* C13: when a stop_sidecar call returns Ok(()) into a state with is_running
\* false, no child spawned so far is alive without having been sent the
\* termination signal.
C13_StopSuccessSignals ==
    [][\A c \in Callers :
          (StepOf(c) /\ op'[c] = "stop_sidecar" /\ pc'[c] = "idle"
                /\ ret'[c] = OkUnit /\ ~is_running') =>
              \A k \in Children : proc'[k] # "alive"]_vars

\* C14: the monitor of a child is started once, by the call that spawned the
\* child, after that call has written child_id (line 39) and then is_running
\* (line 40); and every call that has spawned a child goes on to start its
\* monitor: it is not held up at line 39 by a guard that is never dropped.
C14_MonitorAfterWrites ==
    /\ [][/\ \A k \in Children :
              (mon'[k] # mon[k] /\ (mon[k] = "none" \/ mon'[k] = "recv")) =>
                  /\ mon[k] \in {"none", "recv"}
                  /\ mon[k] = "none" =>
                        \E c \in Callers : pc[c] = "start_47" /\ loc[c] = Some(k)
                                              /\ pc'[c] = "start_92"
          /\ \A c \in Callers :
                /\ (pc[c] = "start_39" /\ StepOf(c)) =>
                      (pc'[c] = "start_40" /\ child_id' = loc[c] /\ loc[c] # None
                          /\ UNCHANGED mon)
                /\ (pc[c] = "start_40" /\ StepOf(c)) =>
                      (pc'[c] = "start_47" /\ is_running' = TRUE /\ UNCHANGED mon)
                /\ (pc[c] = "start_47" /\ StepOf(c)) =>
                      \E k \in loc[c] : mon[k] = "none" /\ mon'[k] = "recv"]_vars
    /\ [](\A c \in Callers :
            pc[c] = "start_39" =>
                \/ ENABLED Start_L39(c)
                \/ \E d \in Callers : holder["child_id"] = Some(d) /\ ENABLED StopStep(d))

\* C15: the step that ends a monitor task is the break of the Error arm,
\* which clears child_id after is_running was set to false, or the break of
\* the Terminated arm, which follows both writes.
C15_StoppedBeforeMonitorEnds ==
    [][\A k \in Children :
          /\ (RxOpen(k) /\ ~RxOpen(k)') =>
                \/ mon[k] = "mon_66" /\ child_id' = None
                \/ mon[k] = "mon_76"
          /\ (mon'[k] # mon[k] /\ mon'[k] = "mon_66") =>
                (mon[k] = "mon_65" /\ is_running' = FALSE)
          /\ (mon'[k] # mon[k] /\ mon'[k] = "mon_76") =>
                (mon[k] = "mon_75" /\ child_id' = None)
          /\ (mon'[k] # mon[k] /\ mon'[k] = "mon_75") =>
                (mon[k] = "mon_74" /\ is_running' = FALSE)]_vars

\* C16: once the kill command of a stop_sidecar call has succeeded on a
\* child and the child's monitor has taken the Terminated event, the monitor
\* goes on to the end of the arm and ends.
C16_MonitorEnds ==
    \A k \in Children :
        (/\ mon[k] = "mon_74"
         /\ \E c \in Callers : pc[c] \in {"stop_125", "stop_126"} /\ loc[c] = Some(k))
            ~> (mon[k] = "done")

\* C17: a call that is creating or spawning the command, running the kill
\* command or waiting for an HTTP response holds no guard of the manager.
C17_NoGuardAcrossIO ==
    \A c \in Callers :
        pc[c] \in {"start_33", "stop_123", "health_166", "prompt_208"} =>
            \A l \in Locks : holder[l] # Some(c)

\* C18: in every state in which no guard of the manager is held, child_id is
\* Some exactly when is_running is true.
C18_UpdatedTogether ==
    (\A l \in Locks : holder[l] = None) => ((child_id # None) <=> is_running)

\* C19: a monitor that takes an Error event writes the error to
\* error_message, sets is_running to false, sets child_id to None and ends,
\* dropping what is left in the channel; it is never held up at the last
\* write by a guard that is never dropped.
C19_ErrorHandled ==
    /\ [][\A k \in Children :
            /\ (mon[k] = "recv" /\ queue[k] # <<>> /\ Head(queue[k]).kind = "Error"
                    /\ mon'[k] # mon[k]) =>
                  (mon'[k] = "mon_63" /\ UNCHANGED sup)
            /\ (mon[k] = "mon_63" /\ mon'[k] # mon[k]) =>
                  (mon'[k] = "mon_65" /\ error_message' = Some(ProcessErrorMsg)
                      /\ UNCHANGED <<is_running, child_id>>)
            /\ (mon[k] = "mon_65" /\ mon'[k] # mon[k]) =>
                  (mon'[k] = "mon_66" /\ is_running' = FALSE
                      /\ UNCHANGED <<child_id, error_message>>)
            /\ (mon[k] = "mon_66" /\ mon'[k] # mon[k]) =>
                  (mon'[k] = "done" /\ child_id' = None /\ queue'[k] = <<>>
                      /\ UNCHANGED <<is_running, error_message>>)]_vars
    /\ [](\A k \in Children :
            mon[k] = "mon_66" =>
                \/ ENABLED Mon_L66(k)
                \/ \E c \in Callers : holder["child_id"] = Some(c) /\ ENABLED StopStep(c))

\* C20: a stop_sidecar call that read is_running as true and finds child_id
\* None at line 116 returns Err("No process ID available"): it runs no kill
\* command and changes none of is_running, child_id and error_message; and
\* with child_id None the mutex is free and sound, so the call does return.
C20_NoProcessId ==
    /\ [][\A c \in Callers :
            (pc[c] = "stop_116" /\ StepOf(c) /\ child_id = None) =>
                /\ pc'[c] = "idle"
                /\ ret'[c] = ErrNoPid
                /\ UNCHANGED <<sup, proc>>]_vars
    /\ [](child_id = None => (holder["child_id"] = None /\ "child_id" \notin poisoned))

\* stop_sidecar has returned the no-pid error and the manager still counts
\* as running without a pid.
C20_Witness ==
    \E c \in Callers :
        /\ op[c] = "stop_sidecar" /\ pc[c] = "idle" /\ ret[c] = ErrNoPid
        /\ is_running
        /\ child_id = None

\* C21: a step of the monitor of a child that has exited or was sent the
\* termination signal changes none of is_running, child_id and
\* error_message while child_id holds the pid of another child.
C21_OwnChildOnly ==
    [][\A k \in Children :
          (/\ mon'[k] # mon[k]
           /\ proc[k] \in {"signalled", "exited"}
           /\ child_id # None /\ child_id # Some(k)) =>
              UNCHANGED sup]_vars

====
